---------------------------- MODULE Spec2Model ----------------------------
(***************************************************************************)
(* Speechify: a Telegram bot (aiogram) that accumulates text per user,     *)
(* optionally translates it and synthesizes speech.                        *)
(*                                                                         *)
(* The model follows src/handlers/common.py and src/handlers/commands.py:  *)
(* one action per registered handler, routed in registration order, each   *)
(* handler run to completion together with the error handler that aiogram  *)
(* invokes when the handler raises.  The FSM storage is aiogram's          *)
(* MemoryStorage (a state name and a data dict per user); the Preference   *)
(* Store is the User table of src/db.  The chat transport is taken to be   *)
(* reliable (message.answer does not raise).                               *)
(***************************************************************************)
EXTENDS Naturals, Sequences, FiniteSets, TLC

VARIABLES
    fsm_state,   \* [Users -> state name]: MemoryStorage state of each user
    fsm_data,    \* [Users -> data dict]: MemoryStorage data of each user
    db,          \* the User table: user_id -> eng_voice_actor, for the rows that exist
    last,        \* what the last handled update was and what the user saw of it
    submitted,   \* history: segments typed under "no translation" since the text was empty
    tasks,       \* [slot -> handler task]: the handlers the dispatcher runs as asyncio tasks
    loop         \* 0: the event loop is running; k: it is inside a blocking call of task k

vars == <<fsm_state, fsm_data, db, last, submitted, tasks, loop>>

----------------------------------------------------------------------------
(* Bounds of the model *)

\* accumulated text is explored up to this many characters
MaxTextLen == 12

\* handler tasks in flight at the same time
MaxTasks == 2

----------------------------------------------------------------------------
(* Program constants *)

\* core/config.py: LANGUAGE_MAP
LANGUAGE_MAP ==
    [English |-> "en", French |-> "fr", Spanish |-> "es", Russian |-> "ru"]

\* core/config.py: ENG_VOICE_ACTORS
ENG_VOICE_ACTORS ==
    {"Joanna", "Matthew", "Salli", "Justin", "Kimberly", "Ivy", "Raveena", "Joey"}

\* Python's None (a missing row, a message without text)
PyNone == "<None>"

\* states/lang_states.py: the FSM states; "None" is aiogram's cleared state
TTSTextState == [text |-> "text", selected_languages |-> "selected_languages"]
NoState == "None"

\* a data dict with no keys (state.clear())
EmptyData == [k \in {} |-> ""]

----------------------------------------------------------------------------
(* Inputs: the users, the message texts, callback payloads and the outcomes *)
(* of the external collaborators the model draws from.                      *)

Users == {1}

\* the button / command texts the handlers filter on ("Main menu" stands for
\* the source's arrow-prefixed label)
CommandTexts ==
    {"/start", "Settings", "Change voice actor", "Main menu",
     "Synthesize text into voice", "No", "Yes",
     "From english to russian", "From russian to english", "Convert it"}

\* free text a user types: language names and text segments ("privet"
\* stands for the Cyrillic word); PyNone is a message that carries no text
LanguageInputs == {"English", "Russian"}
Segments == {"hello", "privet", "hallo"}
MessageTexts == CommandTexts \cup LanguageInputs \cup Segments \cup {PyNone}

\* voice-selection callbacks offered by inline_voice_actors
CallbackInputs == {"Joanna", "Matthew"}

\* what langid.classify may answer ("de" is outside LANGUAGE_MAP)
DetectedLanguages == {"en", "ru", "de"}

\* the language of each one-word input, which is what langid answers for it
WordLanguage ==
    [hello |-> "en", privet |-> "ru", hallo |-> "de", English |-> "en", Russian |-> "en"]

\* langid.classify(text): a deterministic classifier outside the repository.
\* For a single word it answers the word's language; what it makes of a
\* longer text is not known, so every answer is possible.
langid_classify(text) ==
    IF text \in DOMAIN WordLanguage THEN {WordLanguage[text]} ELSE DetectedLanguages

\* the translated text returned by translator.translate (an opaque function
\* of its arguments)
Translated(text, src, dest) == "[" \o src \o ">" \o dest \o "]" \o text

----------------------------------------------------------------------------
(* Python / aiogram primitives *)

\* dict.get(key, default)
DataGet(d, k, default) == IF k \in DOMAIN d THEN d[k] ELSE default

\* truthiness of a str | None
Truthy(v) == v # PyNone /\ v # ""

\* The context a handler runs in: the user's FSM state and data, the table,
\* and what the handler has emitted so far.
Ctx(uid) ==
    [state |-> fsm_state[uid], data |-> fsm_data[uid], db |-> db,
     answers |-> <<>>, calls |-> <<>>, raised |-> "none",
     audio |-> FALSE, detected |-> ""]

\* message.answer(text)
Answer(c, a) == [c EXCEPT !.answers = Append(@, a)]

\* state.set_state(s)
SetState(c, s) == [c EXCEPT !.state = s]

\* state.update_data(k = v)
UpdateData(c, k, v) ==
    [c EXCEPT !.data = [j \in DOMAIN c.data \cup {k} |-> IF j = k THEN v ELSE c.data[j]]]

\* state.clear(): state None and data {}
Clear(c) == [c EXCEPT !.state = NoState, !.data = EmptyData]

\* raise e
Raise(c, e) == [c EXCEPT !.raised = e]


----------------------------------------------------------------------------
(* db/crud.py: the Preference Store.  Every operation may also fail with a *)
(* database exception; the handlers below draw that outcome.               *)

\* get_user: the row, or None
get_user(table, user_id) == IF user_id \in DOMAIN table THEN table[user_id] ELSE PyNone

\* get_voice_actor: user.eng_voice_actor if the row exists, else None
get_voice_actor(table, user_id) ==
    IF get_user(table, user_id) # PyNone THEN table[user_id] ELSE PyNone

\* create_user: the table after create-or-fetch (a new row has eng_voice_actor "")
create_user(table, user_id) ==
    IF user_id \in DOMAIN table
    THEN table
    ELSE [u \in DOMAIN table \cup {user_id} |-> IF u = user_id THEN "" ELSE table[u]]

\* Variant of update_voice_actor that inserts the row when there is none
UpdateVoiceActorUpsert(table, user_id, new_voice_actor) ==
    [u \in DOMAIN table \cup {user_id} |->
        IF u = user_id THEN new_voice_actor ELSE table[u]]

\* update_voice_actor: the table after the update (unchanged if there is no row)
update_voice_actor(table, user_id, new_voice_actor) ==
    IF user_id \in DOMAIN table
    THEN [table EXCEPT ![user_id] = new_voice_actor]
    ELSE table

\* update_voice_actor: the value it returns, True iff the row was found
update_voice_actor_result(table, user_id) == get_user(table, user_id) # PyNone

\* whether a Preference Store access goes through or raises
DbOutcomes == {"ok", "fail"}

----------------------------------------------------------------------------
(* The external services, as called from convert_text_to_speech.  A call   *)
(* is recorded in c.calls at the moment the adapter function is entered.   *)

TranslateCall(text, languages) ==
    [svc |-> "translate", text |-> text, languages |-> languages, voice |-> ""]

SynthesizeCall(text, voice_actor) ==
    [svc |-> "synthesize", text |-> text, languages |-> <<>>, voice |-> voice_actor]

\* translate_from_one_language_to_another: the ways it can end, each with the
\* text it returns on success.  languages[1] is read by
\* the first log line, so a list of one language raises IndexError there,
\* which the function turns into UnexpectedError.
translate_from_one_language_to_another(c, text, languages) ==
    LET c1 == [c EXCEPT !.calls = Append(@, TranslateCall(text, languages))]
    IN  IF Len(languages) < 2
        THEN {[result |-> "UnexpectedError", text |-> text, c |-> c1]}
        ELSE UNION {
               IF detected # languages[1]
               THEN {[result |-> "LanguageError", text |-> text,
                      c |-> [c1 EXCEPT !.detected = detected]]}
               ELSE {[result |-> "ok",
                      text |-> Translated(text, languages[1], languages[2]),
                      c |-> [c1 EXCEPT !.detected = detected]],
                     [result |-> "UnexpectedError", text |-> text,
                      c |-> [c1 EXCEPT !.detected = detected]]}
               : detected \in langid_classify(text) }

\* text_to_speech: Polly is called with the text and the voice; it answers
\* with audio only for a voice id it knows, and may fail for any.
text_to_speech(c, text, voice_actor) ==
    LET c1 == [c EXCEPT !.calls = Append(@, SynthesizeCall(text, voice_actor))]
    IN  {[result |-> "UnexpectedError", c |-> c1]}
        \cup (IF Truthy(voice_actor) THEN {[result |-> "ok", c |-> c1]} ELSE {})

----------------------------------------------------------------------------
(* handlers/common.py: the exception handlers                              *)

\* handle_language_error
handle_language_error(c) ==
    SetState(Answer(c, "I can't understand this language"), TTSTextState.text)

\* handle_unexpected_error
handle_unexpected_error(c) ==
    SetState(Answer(c, "An unexpected error has occurred"), TTSTextState.text)

\* aiogram's error dispatch: both error handlers are registered with
\* F.update.message, so they see only failures of message updates; a failure
\* of a callback_query update reaches no handler.
ErrorDispatch(c, update) ==
    IF c.raised = "none" \/ update # "message" THEN c
    ELSE IF c.raised = "LanguageError" THEN handle_language_error(c)
    ELSE handle_unexpected_error(c)


----------------------------------------------------------------------------
(* handlers/commands.py and handlers/common.py: the handlers.  Each is the *)
(* set of contexts the handler can leave behind, one per outcome of the    *)
(* collaborators it calls.                                                 *)

\* start_command: create_user, then the welcome; a failure is caught in the
\* handler itself and answered there
start_command(c, uid) ==
    { IF o = "ok"
      THEN Answer([c EXCEPT !.db = create_user(c.db, uid)], "Welcome to Speechify!")
      ELSE Answer(c, "An unexpected error occurred, please try again later.")
      : o \in DbOutcomes }

\* settings
settings(c) == {Answer(c, "Here you can change your voice actor")}

\* change_voice_actor
change_voice_actor(c) == {Answer(c, "Now choose your voice actor")}

\* process_callback_button_settings: the first of the two handlers registered
\* for a voice callback, so the one aiogram runs
process_callback_button_settings(c, uid, chosen_voice) ==
    IF chosen_voice \notin ENG_VOICE_ACTORS
    THEN {Answer(c, "Please select a valid voice actor.")}
    ELSE { IF o = "ok"
           THEN Answer([c EXCEPT !.db = update_voice_actor(c.db, uid, chosen_voice)],
                       "You have chosen: " \o chosen_voice)
           ELSE Raise(c, "UnexpectedError")
           : o \in DbOutcomes }

\* back_handler
back_handler(c) == {Clear(Answer(c, "Main menu"))}

\* Variant of text_to_speech_handler that tests `voice_act is not None`, so
\* that the empty voice of a fresh row counts as a selected voice
TextToSpeechHandlerNotNone(c, uid) ==
    { IF o = "fail"
      THEN Raise(c, "UnexpectedError")
      ELSE IF get_voice_actor(c.db, uid) # PyNone
      THEN Answer(c, "Do you want to translate your speech?")
      ELSE Answer(c, "First of all, you need to select a voice actor.")
      : o \in DbOutcomes }

\* text_to_speech_handler
text_to_speech_handler(c, uid) ==
    { IF o = "fail"
      THEN Raise(c, "UnexpectedError")
      ELSE IF Truthy(get_voice_actor(c.db, uid))
      THEN Answer(c, "Do you want to translate your speech?")
      ELSE Answer(c, "First of all, you need to select a voice actor.")
      : o \in DbOutcomes }

\* without_translation_handler
without_translation_handler(c) ==
    {SetState(Answer(c, "Now type the text for speech conversion!"), TTSTextState.text)}

\* with_translation_handler
with_translation_handler(c) ==
    {UpdateData(SetState(Answer(c, "Select the language you want to translate from"),
                         TTSTextState.selected_languages),
                "selected_languages", <<>>)}

\* Variant of process_language_selection that inserts the picked language at
\* the front of the list instead of appending it
ProcessLanguageSelectionPrepends(c, text) ==
    IF text \notin DOMAIN LANGUAGE_MAP
    THEN {Answer(c, "Please select a valid language.")}
    ELSE IF "selected_languages" \notin DOMAIN c.data
    THEN {Raise(c, "UnexpectedError")}
    ELSE LET selected_languages == <<LANGUAGE_MAP[text]>> \o c.data["selected_languages"]
             c1 == UpdateData(c, "selected_languages", selected_languages)
         IN  IF Len(selected_languages) = 1
             THEN {Answer(c1, "Now, select the language to translate into")}
             ELSE {SetState(Answer(c1, "Now type text for speech conversion"),
                            TTSTextState.text)}

\* process_language_selection
process_language_selection(c, text) ==
    IF text \notin DOMAIN LANGUAGE_MAP
    THEN {Answer(c, "Please select a valid language.")}
    ELSE IF "selected_languages" \notin DOMAIN c.data
    THEN {Raise(c, "UnexpectedError")}
    ELSE LET selected_languages == Append(c.data["selected_languages"], LANGUAGE_MAP[text])
             c1 == UpdateData(c, "selected_languages", selected_languages)
         IN  IF Len(selected_languages) = 1
             THEN {Answer(c1, "Now, select the language to translate into")}
             ELSE {SetState(Answer(c1, "Now type text for speech conversion"),
                            TTSTextState.text)}

\* language_translation_handler_en_to_ru
language_translation_handler_en_to_ru(c) ==
    {SetState(Answer(UpdateData(c, "selected_languages", <<"en", "ru">>),
                     "Now type text for speech conversion"),
              TTSTextState.text)}

\* language_translation_handler_ru_to_en
language_translation_handler_ru_to_en(c) ==
    {SetState(Answer(UpdateData(c, "selected_languages", <<"ru", "en">>),
                     "Now type text for speech conversion"),
              TTSTextState.text)}

\* Variant of ConvertTry with the Russian override keyed on the source
\* language: languages[0] == 'ru' instead of languages[1] == 'ru'
ConvertTryOverrideOnSource(c, uid, full_text) ==
    LET voice_actor == get_voice_actor(c.db, uid)
        languages == DataGet(c.data, "selected_languages", <<>>)
        Synthesize(c1, text, voice) ==
            { IF s.result = "ok"
              THEN [Answer(s.c, "voice") EXCEPT !.audio = TRUE]
              ELSE Raise(s.c, "UnexpectedError")
              : s \in text_to_speech(c1, text, voice) }
    IN  {Raise(c, "UnexpectedError")}
        \cup
        (IF languages # <<>>
         THEN UNION { IF t.result = "ok"
                      THEN Synthesize(t.c, t.text,
                                      IF languages[1] = "ru" THEN "Tatyana" ELSE voice_actor)
                      ELSE {Raise(t.c, t.result)}
                      : t \in translate_from_one_language_to_another(c, full_text, languages) }
         ELSE Synthesize(c, full_text, voice_actor))

\* convert_text_to_speech, the try block after the empty-text check: the
\* voice is read, the text translated if languages were selected, the voice
\* overridden for a Russian target, the speech synthesized and sent
ConvertTry(c, uid, full_text) ==
    LET voice_actor == get_voice_actor(c.db, uid)
        languages == DataGet(c.data, "selected_languages", <<>>)
        Synthesize(c1, text, voice) ==
            { IF s.result = "ok"
              THEN [Answer(s.c, "voice") EXCEPT !.audio = TRUE]
              ELSE Raise(s.c, "UnexpectedError")
              : s \in text_to_speech(c1, text, voice) }
    IN  {Raise(c, "UnexpectedError")}
        \cup
        (IF languages # <<>>
         THEN UNION { IF t.result = "ok"
                      THEN Synthesize(t.c, t.text,
                                      IF languages[2] = "ru" THEN "Tatyana" ELSE voice_actor)
                      ELSE {Raise(t.c, t.result)}
                      : t \in translate_from_one_language_to_another(c, full_text, languages) }
         ELSE Synthesize(c, full_text, voice_actor))

\* Variant of convert_text_to_speech without the finally clause
ConvertWithoutFinally(c, uid) ==
    LET full_text == DataGet(c.data, "text", "")
    IN  IF full_text = ""
        THEN {Answer(c, "There is nothing to convert")}
        ELSE ConvertTry(c, uid, full_text)

\* convert_text_to_speech: the finally clause clears the state on every way
\* out of the try block, the early return included
convert_text_to_speech(c, uid) ==
    LET full_text == DataGet(c.data, "text", "")
    IN  { Clear(r) :
            r \in IF full_text = ""
                  THEN {Answer(c, "There is nothing to convert")}
                  ELSE ConvertTry(c, uid, full_text) }

\* Variant of text_for_speech_handler that puts the separator before every
\* segment, the first included
TextForSpeechAlwaysSeparator(c, new_text) ==
    IF new_text = PyNone
    THEN {Raise(c, "UnexpectedError")}
    ELSE LET languages == DataGet(c.data, "selected_languages", <<>>)
             previous_text == DataGet(c.data, "text", "")
             updated_text == previous_text \o " " \o new_text
         IN  { IF languages # <<>> /\ detected # languages[1]
               THEN Raise([c EXCEPT !.detected = detected], "LanguageError")
               ELSE Answer(UpdateData([c EXCEPT !.detected = detected], "text", updated_text),
                           "If you want to add more text, you can just type it in.")
               : detected \in langid_classify(new_text) }

\* Variant of text_for_speech_handler that checks the segment against the
\* target language, languages[1], instead of the source
TextForSpeechChecksTarget(c, new_text) ==
    IF new_text = PyNone
    THEN {Raise(c, "UnexpectedError")}
    ELSE LET languages == DataGet(c.data, "selected_languages", <<>>)
             previous_text == DataGet(c.data, "text", "")
             updated_text ==
                 previous_text \o (IF previous_text # "" THEN " " ELSE "") \o new_text
         IN  { IF languages # <<>> /\ detected # languages[Len(languages)]
               THEN Raise([c EXCEPT !.detected = detected], "LanguageError")
               ELSE Answer(UpdateData([c EXCEPT !.detected = detected], "text", updated_text),
                           "If you want to add more text, you can just type it in.")
               : detected \in langid_classify(new_text) }

\* text_for_speech_handler: a message without text makes langid.classify
\* raise; otherwise the segment is checked against the source language, if
\* one is selected, and appended
text_for_speech_handler(c, new_text) ==
    IF new_text = PyNone
    THEN {Raise(c, "UnexpectedError")}
    ELSE LET languages == DataGet(c.data, "selected_languages", <<>>)
             previous_text == DataGet(c.data, "text", "")
             updated_text ==
                 previous_text \o (IF previous_text # "" THEN " " ELSE "") \o new_text
         IN  { IF languages # <<>> /\ detected # languages[1]
               THEN Raise([c EXCEPT !.detected = detected], "LanguageError")
               ELSE Answer(UpdateData([c EXCEPT !.detected = detected], "text", updated_text),
                           "If you want to add more text, you can just type it in.")
               : detected \in langid_classify(new_text) }

\* handle_unknown_message
handle_unknown_message(c) == {Answer(c, "I can't understand you. =(")}


----------------------------------------------------------------------------
(* Dispatch.  core/loader.py includes commands.router before common.router, *)
(* and within a router aiogram tries the handlers in registration order and *)
(* runs the first whose filters pass.                                       *)

\* Variant of Route with convert_text_to_speech registered on the text
\* 'Convert it' alone, without the TTSTextState.text filter
RouteConvertAnyState(state, text) ==
    IF text = "/start" THEN "start_command"
    ELSE IF text = "Settings" THEN "settings"
    ELSE IF text = "Change voice actor" THEN "change_voice_actor"
    ELSE IF text = "Main menu" THEN "back_handler"
    ELSE IF text = "Synthesize text into voice" THEN "text_to_speech_handler"
    ELSE IF text = "No" THEN "without_translation_handler"
    ELSE IF text = "Yes" THEN "with_translation_handler"
    ELSE IF text = "Convert it" THEN "convert_text_to_speech"
    ELSE IF state = TTSTextState.selected_languages THEN "process_language_selection"
    ELSE IF text = "From english to russian" THEN "language_translation_handler_en_to_ru"
    ELSE IF text = "From russian to english" THEN "language_translation_handler_ru_to_en"
    ELSE IF state = TTSTextState.text THEN "text_for_speech_handler"
    ELSE "handle_unknown_message"

\* Variant of Route with the two handlers that filter on the state alone
\* registered before the handlers that filter on the text
RouteStateFirst(state, text) ==
    IF text = "/start" THEN "start_command"
    ELSE IF state = TTSTextState.selected_languages THEN "process_language_selection"
    ELSE IF text = "Convert it" /\ state = TTSTextState.text THEN "convert_text_to_speech"
    ELSE IF state = TTSTextState.text THEN "text_for_speech_handler"
    ELSE IF text = "Settings" THEN "settings"
    ELSE IF text = "Change voice actor" THEN "change_voice_actor"
    ELSE IF text = "Main menu" THEN "back_handler"
    ELSE IF text = "Synthesize text into voice" THEN "text_to_speech_handler"
    ELSE IF text = "No" THEN "without_translation_handler"
    ELSE IF text = "Yes" THEN "with_translation_handler"
    ELSE IF text = "From english to russian" THEN "language_translation_handler_en_to_ru"
    ELSE IF text = "From russian to english" THEN "language_translation_handler_ru_to_en"
    ELSE "handle_unknown_message"

\* the message handler that runs for a message with this text in this state
Route(state, text) ==
    IF text = "/start" THEN "start_command"
    ELSE IF text = "Settings" THEN "settings"
    ELSE IF text = "Change voice actor" THEN "change_voice_actor"
    ELSE IF text = "Main menu" THEN "back_handler"
    ELSE IF text = "Synthesize text into voice" THEN "text_to_speech_handler"
    ELSE IF text = "No" THEN "without_translation_handler"
    ELSE IF text = "Yes" THEN "with_translation_handler"
    ELSE IF state = TTSTextState.selected_languages THEN "process_language_selection"
    ELSE IF text = "From english to russian" THEN "language_translation_handler_en_to_ru"
    ELSE IF text = "From russian to english" THEN "language_translation_handler_ru_to_en"
    ELSE IF text = "Convert it" /\ state = TTSTextState.text THEN "convert_text_to_speech"
    ELSE IF state = TTSTextState.text THEN "text_for_speech_handler"
    ELSE "handle_unknown_message"

\* the history of segments typed with no translation selected, after a
\* handler has left data behind: it restarts whenever the text is empty
History(uid, handler, payload, data) ==
    IF DataGet(data, "text", "") = ""
    THEN [segs |-> <<>>, plain |-> TRUE]
    ELSE IF handler = "text_for_speech_handler" /\ payload # PyNone
    THEN IF submitted[uid].plain
            /\ DataGet(fsm_data[uid], "selected_languages", <<>>) = <<>>
         THEN [segs |-> Append(submitted[uid].segs, payload), plain |-> TRUE]
         ELSE [segs |-> <<>>, plain |-> FALSE]
    ELSE submitted[uid]

\* One update handled to the end: the handler has left context c0, the error
\* handlers run if it raised, and the storage, the table and the record of
\* the update are written.
Commit(uid, update, payload, handler, c0) ==
    LET c == ErrorDispatch(c0, update)
    IN  /\ Len(DataGet(c.data, "text", "")) <= MaxTextLen
        /\ fsm_state' = [fsm_state EXCEPT ![uid] = c.state]
        /\ fsm_data' = [fsm_data EXCEPT ![uid] = c.data]
        /\ db' = c.db
        /\ last' = [uid |-> uid, update |-> update, payload |-> payload,
                    handler |-> handler, raised |-> c.raised, answers |-> c.answers,
                    calls |-> c.calls, audio |-> c.audio, detected |-> c.detected]
        /\ submitted' = [submitted EXCEPT ![uid] = History(uid, handler, payload, c.data)]
        /\ UNCHANGED <<tasks, loop>>

\* a message with text `text` from user uid reaches handler h
Routed(uid, text, h) == Route(fsm_state[uid], text) = h

----------------------------------------------------------------------------
(* The actions: one per handler *)

StartCommand ==
    \E uid \in Users, text \in MessageTexts :
        /\ Routed(uid, text, "start_command")
        /\ \E c \in start_command(Ctx(uid), uid) :
               Commit(uid, "message", text, "start_command", c)

Settings ==
    \E uid \in Users, text \in MessageTexts :
        /\ Routed(uid, text, "settings")
        /\ \E c \in settings(Ctx(uid)) :
               Commit(uid, "message", text, "settings", c)

ChangeVoiceActor ==
    \E uid \in Users, text \in MessageTexts :
        /\ Routed(uid, text, "change_voice_actor")
        /\ \E c \in change_voice_actor(Ctx(uid)) :
               Commit(uid, "message", text, "change_voice_actor", c)

ProcessCallbackButtonSettings ==
    \E uid \in Users, chosen_voice \in CallbackInputs :
        \E c \in process_callback_button_settings(Ctx(uid), uid, chosen_voice) :
            Commit(uid, "callback_query", chosen_voice,
                   "process_callback_button_settings", c)

BackHandler ==
    \E uid \in Users, text \in MessageTexts :
        /\ Routed(uid, text, "back_handler")
        /\ \E c \in back_handler(Ctx(uid)) :
               Commit(uid, "message", text, "back_handler", c)

TextToSpeechHandler ==
    \E uid \in Users, text \in MessageTexts :
        /\ Routed(uid, text, "text_to_speech_handler")
        /\ \E c \in text_to_speech_handler(Ctx(uid), uid) :
               Commit(uid, "message", text, "text_to_speech_handler", c)

WithoutTranslationHandler ==
    \E uid \in Users, text \in MessageTexts :
        /\ Routed(uid, text, "without_translation_handler")
        /\ \E c \in without_translation_handler(Ctx(uid)) :
               Commit(uid, "message", text, "without_translation_handler", c)

WithTranslationHandler ==
    \E uid \in Users, text \in MessageTexts :
        /\ Routed(uid, text, "with_translation_handler")
        /\ \E c \in with_translation_handler(Ctx(uid)) :
               Commit(uid, "message", text, "with_translation_handler", c)

ProcessLanguageSelection ==
    \E uid \in Users, text \in MessageTexts :
        /\ Routed(uid, text, "process_language_selection")
        /\ \E c \in process_language_selection(Ctx(uid), text) :
               Commit(uid, "message", text, "process_language_selection", c)

LanguageTranslationHandlerEnToRu ==
    \E uid \in Users, text \in MessageTexts :
        /\ Routed(uid, text, "language_translation_handler_en_to_ru")
        /\ \E c \in language_translation_handler_en_to_ru(Ctx(uid)) :
               Commit(uid, "message", text, "language_translation_handler_en_to_ru", c)

LanguageTranslationHandlerRuToEn ==
    \E uid \in Users, text \in MessageTexts :
        /\ Routed(uid, text, "language_translation_handler_ru_to_en")
        /\ \E c \in language_translation_handler_ru_to_en(Ctx(uid)) :
               Commit(uid, "message", text, "language_translation_handler_ru_to_en", c)

ConvertTextToSpeech ==
    \E uid \in Users, text \in MessageTexts :
        /\ Routed(uid, text, "convert_text_to_speech")
        /\ \E c \in convert_text_to_speech(Ctx(uid), uid) :
               Commit(uid, "message", text, "convert_text_to_speech", c)

TextForSpeechHandler ==
    \E uid \in Users, text \in MessageTexts :
        /\ Routed(uid, text, "text_for_speech_handler")
        /\ \E c \in text_for_speech_handler(Ctx(uid), text) :
               Commit(uid, "message", text, "text_for_speech_handler", c)

HandleUnknownMessage ==
    \E uid \in Users, text \in MessageTexts :
        /\ Routed(uid, text, "handle_unknown_message")
        /\ \E c \in handle_unknown_message(Ctx(uid)) :
               Commit(uid, "message", text, "handle_unknown_message", c)

----------------------------------------------------------------------------
(* The handler tasks.  Dispatcher.start_polling is called with its         *)
(* defaults, so every update is handled in an asyncio task of its own, and *)
(* the Dispatcher is built without an events isolation, so nothing orders  *)
(* the tasks of one user.  A task runs until it awaits real I/O.           *)

Slots == 1..MaxTasks

\* an empty slot
NoTask ==
    [uid |-> 0, handler |-> "none", pc |-> "done", read_text |-> "", full_text |-> "",
     languages |-> <<>>, voice_actor |-> PyNone, raised |-> "none",
     this_second |-> FALSE, same_name |-> {}, voice_file |-> ""]

----------------------------------------------------------------------------
(* The specification *)

\* A fresh MemoryStorage, an empty User table, nothing handled yet
Init ==
    /\ fsm_state = [u \in Users |-> NoState]
    /\ fsm_data = [u \in Users |-> EmptyData]
    /\ db = [u \in {} |-> ""]
    /\ last = [uid |-> 0, update |-> "none", payload |-> "", handler |-> "none",
               raised |-> "none", answers |-> <<>>, calls |-> <<>>,
               audio |-> FALSE, detected |-> ""]
    /\ submitted = [u \in Users |-> [segs |-> <<>>, plain |-> TRUE]]
    /\ tasks = [k \in Slots |-> NoTask]
    /\ loop = 0

Next ==
    \/ StartCommand
    \/ Settings
    \/ ChangeVoiceActor
    \/ ProcessCallbackButtonSettings
    \/ BackHandler
    \/ TextToSpeechHandler
    \/ WithoutTranslationHandler
    \/ WithTranslationHandler
    \/ ProcessLanguageSelection
    \/ LanguageTranslationHandlerEnToRu
    \/ LanguageTranslationHandlerRuToEn
    \/ ConvertTextToSpeech
    \/ TextForSpeechHandler
    \/ HandleUnknownMessage

Spec == Init /\ [][Next]_vars


----------------------------------------------------------------------------
(* db/crud.py on its own: the three store functions called one after the   *)
(* other, in any order, for several user ids.                              *)

\* the user ids the store is called with
StoreIds == {1, 2, 3}

\* the record of one store call: the function, its arguments and its result
StoreCall(op, user_id, arg, result) ==
    [uid |-> user_id, update |-> "store", payload |-> arg, handler |-> op,
     raised |-> "none", answers |-> <<>>, calls |-> <<>>, audio |-> FALSE,
     detected |-> "", result |-> result]

StoreCreateUser ==
    \E user_id \in StoreIds :
        /\ db' = create_user(db, user_id)
        /\ last' = StoreCall("create_user", user_id, "", create_user(db, user_id)[user_id])
        /\ UNCHANGED <<fsm_state, fsm_data, submitted, tasks, loop>>

StoreUpdateVoiceActor ==
    \E user_id \in StoreIds, new_voice_actor \in CallbackInputs :
        /\ db' = update_voice_actor(db, user_id, new_voice_actor)
        /\ last' = StoreCall("update_voice_actor", user_id, new_voice_actor,
                             update_voice_actor_result(db, user_id))
        /\ UNCHANGED <<fsm_state, fsm_data, submitted, tasks, loop>>

StoreGetVoiceActor ==
    \E user_id \in StoreIds :
        /\ last' = StoreCall("get_voice_actor", user_id, "", get_voice_actor(db, user_id))
        /\ UNCHANGED <<fsm_state, fsm_data, db, submitted, tasks, loop>>

\* the store starts as the program's does: an empty User table
StoreInit == Init

StoreNext ==
    \/ StoreCreateUser
    \/ StoreUpdateVoiceActor
    \/ StoreGetVoiceActor

StoreSpec == StoreInit /\ [][StoreNext]_vars

----------------------------------------------------------------------------
(* The handlers as asyncio tasks on one event loop.  A step runs from one  *)
(* await of real I/O (the Bot API, the database) to the next; the          *)
(* MemoryStorage calls complete without yielding.  translator.translate    *)
(* and polly_client.synthesize_speech are called without await: the loop   *)
(* is inside the call until it returns.                                    *)

\* the users sending updates
ConcUsers == {1, 2}

\* the segments they type
ConcSegments == {"hello"}

Running(k) == tasks[k].pc # "done"

\* the slot the next task gets
FreeSlot == CHOOSE k \in Slots : ~Running(k) /\ \A j \in 1..(k - 1) : Running(j)

CanDispatch == loop = 0 /\ \E k \in Slots : ~Running(k)

NewTask(uid, handler, pc) ==
    [NoTask EXCEPT !.uid = uid, !.handler = handler, !.pc = pc]

\* the record of a finished task
Finished(t, answers, audio, cleared_text) ==
    [uid |-> t.uid, update |-> "message", payload |-> "", handler |-> t.handler,
     raised |-> t.raised, answers |-> answers, calls |-> <<>>, audio |-> audio,
     detected |-> "", read_text |-> t.read_text, cleared_text |-> cleared_text,
     full_text |-> IF audio THEN t.full_text ELSE "",
     voice_file |-> IF audio THEN t.voice_file ELSE ""]

\* a handler of common.py raises: its finally (convert_text_to_speech only)
\* clears the session, then the error handler starts with its answer
RaiseInTask(k, error) ==
    LET t == tasks[k]
    IN  /\ tasks' = [tasks EXCEPT ![k].pc = "error_answer", ![k].raised = error,
                                  ![k].this_second = FALSE, ![k].same_name = {}]
        /\ loop' = 0
        /\ IF t.handler = "convert_text_to_speech"
           THEN /\ fsm_state' = [fsm_state EXCEPT ![t.uid] = NoState]
                /\ fsm_data' = [fsm_data EXCEPT ![t.uid] = EmptyData]
           ELSE UNCHANGED <<fsm_state, fsm_data>>
        /\ UNCHANGED <<db, last, submitted>>

\* text_to_speech names its file speech_<timestamp to the second>.mp3: the
\* tasks whose file has the name that task k gets now
SameName(k) ==
    {j \in Slots \ {k} : tasks[j].pc = "answer_voice" /\ tasks[j].this_second}

\* the clock moves on to the next second: no later file gets the name of one
\* that exists
SecondPasses ==
    /\ \E k \in Slots : tasks[k].this_second
    /\ tasks' = [k \in Slots |-> [tasks[k] EXCEPT !.this_second = FALSE]]
    /\ UNCHANGED <<fsm_state, fsm_data, db, last, submitted, loop>>

\* start_command up to the SELECT of create_user
DispatchStartCommand(uid) ==
    /\ CanDispatch
    /\ Route(fsm_state[uid], "/start") = "start_command"
    /\ tasks' = [tasks EXCEPT ![FreeSlot] = NewTask(uid, "start_command", "select")]
    /\ UNCHANGED <<fsm_state, fsm_data, db, last, submitted, loop>>

\* create_user: the SELECT returns; an absent user is added and committed
CreateUserSelectReturn(k) ==
    /\ loop = 0
    /\ tasks[k].pc = "select"
    /\ tasks' = [tasks EXCEPT ![k].pc =
                    IF get_user(db, tasks[k].uid) # PyNone THEN "answer" ELSE "commit"]
    /\ UNCHANGED <<fsm_state, fsm_data, db, last, submitted, loop>>

\* create_user: the commit of the INSERT returns; user_id is the primary key,
\* so the INSERT of a row that exists by now fails, and start_command catches it
CreateUserCommitReturn(k) ==
    /\ loop = 0
    /\ tasks[k].pc = "commit"
    /\ IF tasks[k].uid \in DOMAIN db
       THEN /\ tasks' = [tasks EXCEPT ![k].pc = "answer", ![k].raised = "IntegrityError"]
            /\ db' = db
       ELSE /\ tasks' = [tasks EXCEPT ![k].pc = "answer"]
            /\ db' = create_user(db, tasks[k].uid)
    /\ UNCHANGED <<fsm_state, fsm_data, last, submitted, loop>>

\* language_translation_handler_en_to_ru up to its answer
DispatchLanguageTranslationHandlerEnToRu(uid) ==
    /\ CanDispatch
    /\ Route(fsm_state[uid], "From english to russian")
          = "language_translation_handler_en_to_ru"
    /\ fsm_data' = [fsm_data EXCEPT ![uid] =
                       UpdateData(Ctx(uid), "selected_languages", <<"en", "ru">>).data]
    /\ tasks' = [tasks EXCEPT ![FreeSlot] =
                    NewTask(uid, "language_translation_handler_en_to_ru", "answer")]
    /\ UNCHANGED <<fsm_state, db, last, submitted, loop>>

\* text_for_speech_handler up to its answer
DispatchTextForSpeechHandler(uid, new_text) ==
    /\ CanDispatch
    /\ Route(fsm_state[uid], new_text) = "text_for_speech_handler"
    /\ LET data == fsm_data[uid]
           languages == DataGet(data, "selected_languages", <<>>)
           previous_text == DataGet(data, "text", "")
           updated_text == previous_text \o (IF previous_text # "" THEN " " ELSE "") \o new_text
       IN  \E detected_language \in langid_classify(new_text) :
               IF languages # <<>> /\ detected_language # languages[1]
               THEN /\ tasks' = [tasks EXCEPT ![FreeSlot] =
                                    [NewTask(uid, "text_for_speech_handler", "error_answer")
                                        EXCEPT !.raised = "LanguageError"]]
                    /\ UNCHANGED fsm_data
               ELSE /\ Len(updated_text) <= MaxTextLen
                    /\ fsm_data' = [fsm_data EXCEPT ![uid] =
                                       UpdateData(Ctx(uid), "text", updated_text).data]
                    /\ tasks' = [tasks EXCEPT ![FreeSlot] =
                                    NewTask(uid, "text_for_speech_handler", "answer")]
    /\ UNCHANGED <<fsm_state, db, last, submitted, loop>>

\* message.answer returns in start_command, text_for_speech_handler or
\* language_translation_handler_en_to_ru, and the handler runs to its end
AnswerReturn(k) ==
    LET t == tasks[k]
    IN  /\ loop = 0
        /\ t.pc = "answer"
        /\ fsm_state' = IF t.handler = "language_translation_handler_en_to_ru"
                        THEN [fsm_state EXCEPT ![t.uid] = TTSTextState.text]
                        ELSE fsm_state
        /\ last' = Finished(t, <<"answer">>, FALSE, "")
        /\ tasks' = [tasks EXCEPT ![k] = NoTask]
        /\ UNCHANGED <<fsm_data, db, submitted, loop>>

\* convert_text_to_speech up to its first await of I/O: the session is read
DispatchConvertTextToSpeech(uid) ==
    /\ CanDispatch
    /\ Route(fsm_state[uid], "Convert it") = "convert_text_to_speech"
    /\ LET full_text == DataGet(fsm_data[uid], "text", "")
       IN  tasks' = [tasks EXCEPT ![FreeSlot] =
                        [NewTask(uid, "convert_text_to_speech",
                                 IF full_text = "" THEN "answer_nothing" ELSE "get_voice_actor")
                            EXCEPT !.read_text = full_text,
                                   !.full_text = full_text,
                                   !.languages = DataGet(fsm_data[uid], "selected_languages", <<>>)]]
    /\ UNCHANGED <<fsm_state, fsm_data, db, last, submitted, loop>>

\* convert_text_to_speech: get_voice_actor returns; the handler goes on into
\* translate_from_one_language_to_another or text_to_speech without yielding
GetVoiceActorReturn(k) ==
    LET t == tasks[k]
    IN  /\ loop = 0
        /\ t.pc = "get_voice_actor"
        /\ \E o \in DbOutcomes, detected_language \in langid_classify(t.full_text) :
               IF o = "fail"
               THEN RaiseInTask(k, "UnexpectedError")
               ELSE IF t.languages # <<>> /\ detected_language # t.languages[1]
               THEN RaiseInTask(k, "LanguageError")
               ELSE /\ tasks' = [tasks EXCEPT
                                    ![k].voice_actor = get_voice_actor(db, t.uid),
                                    ![k].this_second = (t.languages = <<>>),
                                    ![k].same_name =
                                        IF t.languages = <<>> THEN SameName(k) ELSE {},
                                    ![k].pc = IF t.languages # <<>> THEN "translate"
                                              ELSE "synthesize"]
                    /\ loop' = k
                    /\ UNCHANGED <<fsm_state, fsm_data, db, last, submitted>>

\* translator.translate returns, and the handler goes on into text_to_speech
TranslateReturn(k) ==
    LET t == tasks[k]
    IN  /\ loop = k
        /\ t.pc = "translate"
        /\ \E o \in {"ok", "fail"} :
               IF o = "fail"
               THEN RaiseInTask(k, "UnexpectedError")
               ELSE /\ tasks' = [tasks EXCEPT
                                    ![k].full_text =
                                        Translated(t.full_text, t.languages[1], t.languages[2]),
                                    ![k].voice_actor =
                                        IF t.languages[2] = "ru" THEN "Tatyana"
                                        ELSE t.voice_actor,
                                    ![k].this_second = TRUE,
                                    ![k].same_name = SameName(k),
                                    ![k].pc = "synthesize"]
                    /\ UNCHANGED <<fsm_state, fsm_data, db, last, submitted, loop>>

\* polly_client.synthesize_speech returns, and the handler awaits answer_voice
SynthesizeSpeechReturn(k) ==
    LET t == tasks[k]
    IN  /\ loop = k
        /\ t.pc = "synthesize"
        /\ \E o \in {"ok", "fail"} :
               IF o = "fail" \/ ~Truthy(t.voice_actor)
               THEN RaiseInTask(k, "UnexpectedError")
               ELSE /\ tasks' = [j \in Slots |->
                                    IF j = k
                                    THEN [t EXCEPT !.pc = "answer_voice",
                                                   !.voice_file = t.full_text,
                                                   !.same_name = {}]
                                    ELSE IF j \in t.same_name
                                    THEN [tasks[j] EXCEPT !.voice_file = t.full_text]
                                    ELSE tasks[j]]
                    /\ loop' = 0
                    /\ UNCHANGED <<fsm_state, fsm_data, db, last, submitted>>

\* convert_text_to_speech: answer_voice (or the "nothing to convert" answer)
\* returns, and the finally clause clears the session
ConvertAnswerReturn(k) ==
    LET t == tasks[k]
    IN  /\ loop = 0
        /\ t.pc \in {"answer_voice", "answer_nothing"}
        /\ fsm_state' = [fsm_state EXCEPT ![t.uid] = NoState]
        /\ fsm_data' = [fsm_data EXCEPT ![t.uid] = EmptyData]
        /\ last' = Finished(t, <<IF t.pc = "answer_voice" THEN "voice"
                                 ELSE "There is nothing to convert">>,
                            t.pc = "answer_voice", DataGet(fsm_data[t.uid], "text", ""))
        /\ tasks' = [tasks EXCEPT ![k] = NoTask]
        /\ UNCHANGED <<db, submitted, loop>>

\* handle_language_error / handle_unexpected_error: message.answer returns
\* and the state is set
ErrorAnswerReturn(k) ==
    LET t == tasks[k]
    IN  /\ loop = 0
        /\ t.pc = "error_answer"
        /\ fsm_state' = [fsm_state EXCEPT ![t.uid] = TTSTextState.text]
        /\ last' = Finished(t, <<"error">>, FALSE, "")
        /\ tasks' = [tasks EXCEPT ![k] = NoTask]
        /\ UNCHANGED <<fsm_data, db, submitted, loop>>

\* the next step of the task in slot k
TaskStep(k) ==
    \/ CreateUserSelectReturn(k)
    \/ CreateUserCommitReturn(k)
    \/ AnswerReturn(k)
    \/ GetVoiceActorReturn(k)
    \/ TranslateReturn(k)
    \/ SynthesizeSpeechReturn(k)
    \/ ConvertAnswerReturn(k)
    \/ ErrorAnswerReturn(k)

\* a fresh MemoryStorage and an empty User table, for the users of ConcUsers
ConcInit ==
    /\ fsm_state = [u \in ConcUsers |-> NoState]
    /\ fsm_data = [u \in ConcUsers |-> EmptyData]
    /\ db = [u \in {} |-> ""]
    /\ last = [uid |-> 0, update |-> "none", payload |-> "", handler |-> "none",
               raised |-> "none", answers |-> <<>>, calls |-> <<>>, audio |-> FALSE,
               detected |-> "", read_text |-> "", cleared_text |-> "",
               full_text |-> "", voice_file |-> ""]
    /\ submitted = [u \in ConcUsers |-> [segs |-> <<>>, plain |-> TRUE]]
    /\ tasks = [k \in Slots |-> NoTask]
    /\ loop = 0

ConcNext ==
    \/ \E uid \in ConcUsers : DispatchStartCommand(uid)
    \/ \E uid \in ConcUsers : DispatchLanguageTranslationHandlerEnToRu(uid)
    \/ \E uid \in ConcUsers, new_text \in ConcSegments :
           DispatchTextForSpeechHandler(uid, new_text)
    \/ \E uid \in ConcUsers : DispatchConvertTextToSpeech(uid)
    \/ \E k \in Slots : CreateUserSelectReturn(k)
    \/ \E k \in Slots : CreateUserCommitReturn(k)
    \/ \E k \in Slots : AnswerReturn(k)
    \/ \E k \in Slots : GetVoiceActorReturn(k)
    \/ \E k \in Slots : TranslateReturn(k)
    \/ \E k \in Slots : SynthesizeSpeechReturn(k)
    \/ \E k \in Slots : ConvertAnswerReturn(k)
    \/ \E k \in Slots : ErrorAnswerReturn(k)
    \/ SecondPasses

ConcSpec == ConcInit /\ [][ConcNext]_vars

----------------------------------------------------------------------------
(* The session as the specification names it *)

\* selected_languages and accumulated_text of a user's session
SelectedLanguages(uid) == DataGet(fsm_data[uid], "selected_languages", <<>>)
AccumulatedText(uid) == DataGet(fsm_data[uid], "text", "")

\* the phase: TTSTextState.selected_languages covers both language-selection
\* phases, told apart by how many languages have been picked
Phase(uid) ==
    IF fsm_state[uid] = NoState THEN "Idle"
    ELSE IF fsm_state[uid] = TTSTextState.text THEN "AccumulatingText"
    ELSE IF Len(SelectedLanguages(uid)) = 0 THEN "AwaitingTranslationSourceLanguage"
    ELSE "AwaitingTranslationTargetLanguage"

\* the stored voice of a user, None if there is no row
StoredVoice(uid) == IF uid \in DOMAIN db THEN db[uid] ELSE PyNone

\* the calls of the last update to one service
CallsTo(svc) == {i \in 1..Len(last.calls) : last.calls[i].svc = svc}

----------------------------------------------------------------------------
(* Claims *)

\* C1: 'Convert it' in AccumulatingText with empty accumulated_text answers
\* "nothing to convert", calls no service and leaves the session unchanged
\* (phase still AccumulatingText, selected_languages as before).
C1_EmptyFinalizeLeavesSession ==
    [][\A uid \in Users :
          (/\ last'.handler = "convert_text_to_speech"
           /\ last'.uid = uid
           /\ AccumulatedText(uid) = "")
          => (/\ last'.answers = <<"There is nothing to convert">>
              /\ last'.calls = <<>>
              /\ Phase(uid)' = "AccumulatingText"
              /\ SelectedLanguages(uid)' = SelectedLanguages(uid))]_vars

\* C2: when finalization fails (LanguageError or UnexpectedError) no audio is
\* sent and afterwards the session is in AccumulatingText with empty text.
C2_FailedFinalizeRetry ==
    \A uid \in Users :
        (/\ last.handler = "convert_text_to_speech"
         /\ last.uid = uid
         /\ last.raised # "none")
        => (/\ ~last.audio
            /\ \A i \in 1..Len(last.answers) : last.answers[i] # "voice"
            /\ Phase(uid) = "AccumulatingText"
            /\ AccumulatedText(uid) = "")

\* C2 witness: a finalization that the Translation Service rejected with a
\* language mismatch has been handled
C2_Witness ==
    /\ last.handler = "convert_text_to_speech"
    /\ last.raised = "LanguageError"
    /\ CallsTo("translate") # {}
    /\ fsm_state[last.uid] = TTSTextState.text

\* C3: a LanguageError at finalization keeps selected_languages: only the
\* accumulated text is emptied.
C3_MismatchKeepsLanguages ==
    [][\A uid \in Users :
          (/\ last'.handler = "convert_text_to_speech"
           /\ last'.uid = uid
           /\ last'.raised = "LanguageError")
          => (/\ SelectedLanguages(uid)' = SelectedLanguages(uid)
              /\ AccumulatedText(uid)' = "")]_vars

\* C4: an UnexpectedError on a non-finalization path leaves phase,
\* selected_languages and accumulated_text as they were.
C4_UnexpectedLeavesSession ==
    [][\A uid \in Users :
          (/\ last'.handler # "convert_text_to_speech"
           /\ last'.uid = uid
           /\ last'.raised = "UnexpectedError")
          => (/\ Phase(uid)' = Phase(uid)
              /\ SelectedLanguages(uid)' = SelectedLanguages(uid)
              /\ AccumulatedText(uid)' = AccumulatedText(uid))]_vars

\* C5: after 'No' the session is in AccumulatingText with selected_languages
\* empty, whatever the state the answer arrived in.
C5_NoMeansNoTranslation ==
    \A uid \in Users :
        (last.handler = "without_translation_handler" /\ last.uid = uid)
        => (Phase(uid) = "AccumulatingText" /\ SelectedLanguages(uid) = <<>>)

\* C6: in Idle and in AccumulatingText selected_languages is empty or has
\* exactly 2 entries.
C6_LanguagesEmptyOrPair ==
    \A uid \in Users :
        Phase(uid) \in {"Idle", "AccumulatingText"}
        => Len(SelectedLanguages(uid)) \in {0, 2}

\* C7: accumulated_text is non-empty only in AccumulatingText.
C7_TextOnlyWhileAccumulating ==
    \A uid \in Users :
        Phase(uid) # "AccumulatingText" => AccumulatedText(uid) = ""


\* the segments joined by single spaces, in order
RECURSIVE JoinSpace(_)
JoinSpace(segs) ==
    IF segs = <<>> THEN ""
    ELSE IF Len(segs) = 1 THEN segs[1]
    ELSE JoinSpace(SubSeq(segs, 1, Len(segs) - 1)) \o " " \o segs[Len(segs)]

\* C8: with no translation selected, every text segment submitted in
\* AccumulatingText is accepted whatever its detected language, the phase
\* stays AccumulatingText, and accumulated_text is the segments submitted
\* since it was empty, joined by single spaces in arrival order.
C8_PlainAccumulation ==
    /\ [](\A uid \in Users :
            submitted[uid].plain
            => AccumulatedText(uid) = JoinSpace(submitted[uid].segs))
    /\ [][\A uid \in Users :
            (/\ last'.handler = "text_for_speech_handler"
             /\ last'.uid = uid
             /\ last'.payload # PyNone
             /\ SelectedLanguages(uid) = <<>>)
            => (/\ last'.raised = "none"
                /\ Phase(uid)' = "AccumulatingText"
                /\ AccumulatedText(uid)' =
                     IF AccumulatedText(uid) = ""
                     THEN last'.payload
                     ELSE AccumulatedText(uid) \o " " \o last'.payload)]_vars

\* C8 witness: two different segments accumulated without translation, the
\* second in a language outside LANGUAGE_MAP
C8_Witness ==
    \E uid \in Users :
        /\ last.handler = "text_for_speech_handler"
        /\ last.uid = uid
        /\ last.detected = "de"
        /\ submitted[uid].plain
        /\ submitted[uid].segs = <<"hello", "hallo">>
        /\ AccumulatedText(uid) = "hello hallo"
        /\ SelectedLanguages(uid) = <<>>

\* C9: with selected_languages = [src, dst], a segment whose detected
\* language differs from src is rejected with LanguageError; accumulated_text
\* and selected_languages are unchanged and the phase is still AccumulatingText.
C9_MismatchedSegmentRejected ==
    [][\A uid \in Users :
          (/\ last'.handler = "text_for_speech_handler"
           /\ last'.uid = uid
           /\ last'.payload # PyNone
           /\ Len(SelectedLanguages(uid)) = 2
           /\ last'.detected # SelectedLanguages(uid)[1])
          => (/\ last'.raised = "LanguageError"
              /\ AccumulatedText(uid)' = AccumulatedText(uid)
              /\ SelectedLanguages(uid)' = SelectedLanguages(uid)
              /\ Phase(uid)' = "AccumulatingText")]_vars

\* C9 witness: a segment has been rejected while a pair was selected and some
\* text was already accumulated
C9_Witness ==
    \E uid \in Users :
        /\ last.handler = "text_for_speech_handler"
        /\ last.uid = uid
        /\ last.raised = "LanguageError"
        /\ Len(SelectedLanguages(uid)) = 2
        /\ last.detected # SelectedLanguages(uid)[1]
        /\ AccumulatedText(uid) # ""
        /\ Phase(uid) = "AccumulatingText"

\* C10: every call of the Speech Synthesis Service passes "Tatyana" if
\* selected_languages is non-empty with target "ru", and otherwise exactly
\* the voice stored for the user.
C10_VoiceResolution ==
    [][\A i \in 1..Len(last'.calls) :
          last'.calls[i].svc = "synthesize"
          => last'.calls[i].voice =
               IF /\ Len(SelectedLanguages(last'.uid)) >= 2
                  /\ SelectedLanguages(last'.uid)[2] = "ru"
               THEN "Tatyana"
               ELSE StoredVoice(last'.uid)]_vars

\* C10 witness: a synthesis call with the override voice for a user whose
\* stored voice is another one
C10_Witness ==
    /\ last.handler = "convert_text_to_speech"
    /\ \E i \in CallsTo("synthesize") : last.calls[i].voice = "Tatyana"
    /\ \E i \in CallsTo("translate") : last.calls[i].languages[2] = "ru"
    /\ StoredVoice(last.uid) \in ENG_VOICE_ACTORS


\* C11: 'Synthesize text into voice' from a user with no stored voice (no
\* row, or an empty voice) offers the voice selection; a user with a stored
\* voice is asked the translate question.  Either way the session is
\* unchanged and no service is called.
C11_EntryNeedsVoice ==
    [][\A uid \in Users :
          (/\ last'.handler = "text_to_speech_handler"
           /\ last'.uid = uid
           /\ last'.raised = "none")
          => (/\ last'.answers =
                   IF StoredVoice(uid) \in {PyNone, ""}
                   THEN <<"First of all, you need to select a voice actor.">>
                   ELSE <<"Do you want to translate your speech?">>
              /\ last'.calls = <<>>
              /\ ~last'.audio
              /\ fsm_state'[uid] = fsm_state[uid]
              /\ fsm_data'[uid] = fsm_data[uid])]_vars

\* C11 witness: an Idle user whose row has the empty voice has been offered
\* the voice selection
C11_Witness ==
    \E uid \in Users :
        /\ last.handler = "text_to_speech_handler"
        /\ last.uid = uid
        /\ last.answers = <<"First of all, you need to select a voice actor.">>
        /\ uid \in DOMAIN db
        /\ db[uid] = ""
        /\ Phase(uid) = "Idle"

\* C12: when finalization succeeds the audio is sent and the session is
\* cleared: phase Idle, selected_languages and accumulated_text empty.
C12_SuccessClearsSession ==
    \A uid \in Users :
        (/\ last.handler = "convert_text_to_speech"
         /\ last.uid = uid
         /\ last.raised = "none"
         /\ CallsTo("synthesize") # {})
        => (/\ last.audio
            /\ last.answers = <<"voice">>
            /\ Phase(uid) = "Idle"
            /\ SelectedLanguages(uid) = <<>>
            /\ AccumulatedText(uid) = "")

\* C12 witness: a finalization with translation has sent its audio
C12_Witness ==
    /\ last.handler = "convert_text_to_speech"
    /\ last.audio
    /\ CallsTo("translate") # {}
    /\ CallsTo("synthesize") # {}
    /\ fsm_state[last.uid] = NoState

\* C13: 'Yes' enters AwaitingTranslationSourceLanguage with selected_languages
\* empty; a language pick that is not a recognized name re-prompts and changes
\* neither phase nor selected_languages; the first recognized name becomes
\* entry 0 and moves to AwaitingTranslationTargetLanguage; the second becomes
\* entry 1 and moves to AccumulatingText.
C13_LanguageSelectionProtocol ==
    [][\A uid \in Users :
          /\ (last'.handler = "with_translation_handler" /\ last'.uid = uid)
             => (/\ Phase(uid)' = "AwaitingTranslationSourceLanguage"
                 /\ SelectedLanguages(uid)' = <<>>)
          /\ (/\ last'.handler = "process_language_selection"
              /\ last'.uid = uid
              /\ last'.payload \notin DOMAIN LANGUAGE_MAP)
             => (/\ last'.answers = <<"Please select a valid language.">>
                 /\ Phase(uid)' = Phase(uid)
                 /\ SelectedLanguages(uid)' = SelectedLanguages(uid))
          /\ (/\ last'.handler = "process_language_selection"
              /\ last'.uid = uid
              /\ last'.payload \in DOMAIN LANGUAGE_MAP
              /\ Phase(uid) = "AwaitingTranslationSourceLanguage")
             => (/\ SelectedLanguages(uid)' = <<LANGUAGE_MAP[last'.payload]>>
                 /\ Phase(uid)' = "AwaitingTranslationTargetLanguage")
          /\ (/\ last'.handler = "process_language_selection"
              /\ last'.uid = uid
              /\ last'.payload \in DOMAIN LANGUAGE_MAP
              /\ Phase(uid) = "AwaitingTranslationTargetLanguage")
             => (/\ SelectedLanguages(uid)' =
                      <<SelectedLanguages(uid)[1], LANGUAGE_MAP[last'.payload]>>
                 /\ Phase(uid)' = "AccumulatingText")]_vars

\* C13 witness: the second pick has completed the pair (ru, en)
C13_Witness ==
    \E uid \in Users :
        /\ last.handler = "process_language_selection"
        /\ last.uid = uid
        /\ last.payload = "English"
        /\ SelectedLanguages(uid) = <<"ru", "en">>
        /\ Phase(uid) = "AccumulatingText"

\* C14: 'Main menu' is handled by back_handler in every reachable session
\* state (never as a text segment or a language pick), and afterwards the
\* phase is Idle with selected_languages and accumulated_text empty.
C14_MainMenuEscape ==
    /\ [](\A uid \in Users : Route(fsm_state[uid], "Main menu") = "back_handler")
    /\ [][\A uid \in Users :
            /\ (last'.payload = "Main menu" /\ last'.update = "message")
               => last'.handler = "back_handler"
            /\ (last'.handler = "back_handler" /\ last'.uid = uid)
               => (/\ last'.raised = "none"
                   /\ Phase(uid)' = "Idle"
                   /\ fsm_data'[uid] = EmptyData)]_vars

\* C14 witness: the main menu has been reached and the session is cleared
C14_Witness ==
    \E uid \in Users :
        /\ last.handler = "back_handler"
        /\ last.uid = uid
        /\ last.payload = "Main menu"
        /\ Phase(uid) = "Idle"
        /\ fsm_data[uid] = EmptyData


\* C15: a voice selection from the enumerated set is accepted in every
\* session phase and persists immediately: once it is handled and confirmed
\* to the user, get_voice for that user returns the voice, and the phase,
\* selected_languages and accumulated_text are unchanged.
C15_VoiceSelectionPersists ==
    [][\A uid \in Users :
          (/\ last'.handler = "process_callback_button_settings"
           /\ last'.uid = uid
           /\ last'.payload \in ENG_VOICE_ACTORS
           /\ last'.answers = <<"You have chosen: " \o last'.payload>>)
          => (/\ get_voice_actor(db', uid) = last'.payload
              /\ fsm_state'[uid] = fsm_state[uid]
              /\ fsm_data'[uid] = fsm_data[uid])]_vars

\* C17: update_voice_actor for a user id that has no row returns False,
\* creates no row and changes no other row, so get_voice_actor for that id
\* is still None afterwards.
C17_SetVoiceNotFound ==
    [][\A user_id \in StoreIds :
          (/\ last'.handler = "update_voice_actor"
           /\ last'.uid = user_id
           /\ user_id \notin DOMAIN db)
          => (/\ last'.result = FALSE
              /\ db' = db
              /\ get_voice_actor(db', user_id) = PyNone)]_vars

\* C17 witness: an update for an id without a row has returned False while
\* another user's row holds a selected voice
C17_Witness ==
    /\ last.handler = "update_voice_actor"
    /\ last.result = FALSE
    /\ last.uid \notin DOMAIN db
    /\ \E other \in DOMAIN db : db[other] \in ENG_VOICE_ACTORS

\* C20: every failure of a handler ends with a user-visible error message:
\* no update whose handler raised ends without a message, and no voice
\* selection that the store did not take ends with the success confirmation.
C20_NothingSwallowed ==
    /\ last.raised # "none" => last.answers # <<>>
    /\ (/\ last.handler = "process_callback_button_settings"
        /\ last.payload \in ENG_VOICE_ACTORS
        /\ StoredVoice(last.uid) # last.payload)
       => (/\ last.answers # <<>>
           /\ last.answers # <<"You have chosen: " \o last.payload>>)


\* C16: create_user is idempotent: however often it is called for one user
\* id it never fails on a duplicate, and the table holds one row for the id
\* afterwards (a row that exists keeps its voice).
C16_CreateUserNeverFailsOnDuplicate ==
    /\ \A k \in Slots :
          tasks[k].handler = "start_command" => tasks[k].raised = "none"
    /\ last.handler = "start_command" => (last.raised = "none" /\ last.uid \in DOMAIN db)

\* C18: the updates of one user are handled one at a time: no two handler
\* tasks of one user are in flight together, and so a finalization clears
\* exactly the text it read (a segment accepted while it was suspended is
\* neither left out of the audio nor dropped by its clear).
C18_OneHandlerPerUser ==
    /\ \A j, k \in Slots :
          (j # k /\ Running(j) /\ Running(k)) => tasks[j].uid # tasks[k].uid
    /\ (last.handler = "convert_text_to_speech" /\ last.audio)
       => last.cleared_text = last.read_text

\* C19: while a Translation Service or Speech Synthesis Service call of one
\* user is outstanding, a handler that runs for another user can take its
\* next step.
C19_CrossUserIsolation ==
    \A k \in Slots :
        (Running(k) /\ tasks[k].pc \in {"translate", "synthesize"})
        => \A j \in Slots :
              (Running(j) /\ tasks[j].uid # tasks[k].uid) => ENABLED TaskStep(j)


\* C21: a fixed-pair shortcut, in whatever phase it is received, leaves the
\* phase AccumulatingText and selected_languages exactly (en, ru),
\* respectively (ru, en).
C21_ShortcutBypassesSelection ==
    [][\A uid \in Users :
          (/\ last'.uid = uid
           /\ last'.update = "message"
           /\ last'.payload \in {"From english to russian", "From russian to english"}
           /\ last'.raised = "none")
          => (/\ Phase(uid)' = "AccumulatingText"
              /\ SelectedLanguages(uid)' =
                    IF last'.payload = "From english to russian"
                    THEN <<"en", "ru">> ELSE <<"ru", "en">>)]_vars

\* C22: a 'Convert it' with non-empty accumulated_text that gets past the
\* Preference Store calls the Translation Service iff selected_languages is
\* non-empty, once, with (accumulated_text, selected_languages[0],
\* selected_languages[1]); it calls the Speech Synthesis Service at most
\* once, after the translation when there is one and with its result, else
\* with accumulated_text verbatim; nothing is called twice.
C22_ServiceCallsOfFinalization ==
    [][\A uid \in Users :
          (/\ last'.handler = "convert_text_to_speech"
           /\ last'.uid = uid
           /\ AccumulatedText(uid) # ""
           /\ last'.calls # <<>>)
          => LET langs == SelectedLanguages(uid)
                 text == AccumulatedText(uid)
                 calls == last'.calls
                 tr == {i \in 1..Len(calls) : calls[i].svc = "translate"}
                 sy == {i \in 1..Len(calls) : calls[i].svc = "synthesize"}
             IN  /\ (tr # {}) <=> (langs # <<>>)
                 /\ Cardinality(tr) <= 1
                 /\ Cardinality(sy) <= 1
                 /\ \A i \in tr : Len(langs) = 2 /\ calls[i] = TranslateCall(text, langs)
                 /\ \A i \in sy :
                       IF langs = <<>>
                       THEN calls[i].text = text
                       ELSE /\ \E j \in tr : j < i
                            /\ Len(langs) = 2
                            /\ calls[i].text = Translated(text, langs[1], langs[2])]_vars

\* C23: the Speech Synthesis Service is never called with an empty or absent
\* voice: every synthesis call carries a voice of the enumerated set or the
\* override voice.
C23_SynthesisHasVoice ==
    \A i \in CallsTo("synthesize") :
        last.calls[i].voice \in ENG_VOICE_ACTORS \cup {"Tatyana"}

\* C24: the services are called, and audio is produced, only by a 'Convert
\* it' received in AccumulatingText with non-empty accumulated_text; a
\* 'Convert it' in any other phase calls nothing and produces no audio.
C24_CallsOnlyInFinalization ==
    [][\A uid \in Users :
          /\ (last'.uid = uid /\ (last'.calls # <<>> \/ last'.audio))
             => (/\ last'.handler = "convert_text_to_speech"
                 /\ last'.payload = "Convert it"
                 /\ Phase(uid) = "AccumulatingText"
                 /\ AccumulatedText(uid) # "")
          /\ (/\ last'.uid = uid
              /\ last'.update = "message"
              /\ last'.payload = "Convert it"
              /\ Phase(uid) # "AccumulatingText")
             => (/\ last'.calls = <<>>
                 /\ ~last'.audio
                 /\ last'.handler # "convert_text_to_speech")]_vars

\* C24 witness: 'Convert it' has arrived while a language was awaited and
\* text was held, and was answered as an invalid language
C24_Witness ==
    \E uid \in Users :
        /\ last.uid = uid
        /\ last.payload = "Convert it"
        /\ last.handler = "process_language_selection"
        /\ last.calls = <<>>
        /\ AccumulatedText(uid) # ""

\* C25: whenever selected_languages holds two entries, they differ.
C25_PairDiffers ==
    \A uid \in Users :
        Len(SelectedLanguages(uid)) = 2
        => SelectedLanguages(uid)[1] # SelectedLanguages(uid)[2]

\* C27: every entry into text accumulation by 'No', by the second language
\* pick or by a shortcut starts with empty accumulated_text.
C27_EntryStartsEmpty ==
    [][\A uid \in Users :
          (/\ last'.uid = uid
           /\ last'.raised = "none"
           /\ \/ last'.handler \in {"without_translation_handler",
                                    "language_translation_handler_en_to_ru",
                                    "language_translation_handler_ru_to_en"}
              \/ /\ last'.handler = "process_language_selection"
                 /\ Phase(uid)' = "AccumulatingText")
          => AccumulatedText(uid)' = ""]_vars


\* C26: the audio sent to a user is the one synthesized from the final text
\* of that finalization, also when another finalization runs within the same
\* timestamp second: the file is not overwritten before it is sent.
C26_OwnAudioSent ==
    (last.handler = "convert_text_to_speech" /\ last.audio)
    => last.voice_file = last.full_text

=============================================================================
